---- MODULE Spec2Model ----
(***************************************************************************)
(* SFMP file transfer: server/server.py (listener, session registry, one  *)
(* handler thread per connection) and client/client.py (command driver).  *)
(*                                                                         *)
(* Byte strings (what travels on a socket, what a file holds) are         *)
(* sequences of runs [k, n, w]: n bytes of kind k.  Kinds: "txt" ordinary *)
(* file text, "nul" the NUL character, "VALID" / "INVALID" the handshake  *)
(* tokens, "cmd" a command line (w = its space-separated words), "ls" a   *)
(* newline-joined listing (w = the entry names), "frag" a piece cut out   *)
(* of a token or listing by a bounded receive.  A command line cut by a   *)
(* bounded receive is two command lines, the words before and after the   *)
(* cut.  A TCP socket is a byte stream: recv(n) returns what has arrived, *)
(* at most n bytes, so two sends may be delivered by one recv.            *)
(***************************************************************************)
EXTENDS Integers, Sequences, FiniteSets, TLC

\* ---------------------------------------------------------------- bounds
MaxConns == 2      \* connections made to the server
MaxCmds == 2       \* command lines issued, all connections together
BigLen == 4097     \* length of the longest file in the initial filesystems

Conns == 1..MaxConns

\* ------------------------------------------------------ program constants
CMD_BUF == 1024    \* conn.recv(1024) / s.recv(1024)
CHUNK == 4096      \* f.read(4096) / recv(4096)

valid_headers == {"GET", "PUT", "LS"}

\* ------------------------------------------------------------ byte strings
Run(k, n, w) == [k |-> k, n |-> n, w |-> w]

Txt(n) == IF n = 0 THEN <<>> ELSE <<Run("txt", n, <<>>)>>

NUL == <<Run("nul", 1, <<>>)>>

VALID == <<Run("VALID", 5, <<>>)>>

INVALID == <<Run("INVALID", 7, <<>>)>>

\* A word that is no header and names no file the model starts with: what
\* a word becomes when bytes of another message are glued to it.
JUNK == "?"

\* A path of more than a thousand characters that ends in "LS", long
\* enough for the line `GET <path> server` to reach the end of a
\* recv(1024) just before that "LS".
LongLS == "a/.../aLS"

PadLen == CMD_BUF - 4

WordLen(w) == IF w = JUNK THEN 1 ELSE IF w = LongLS THEN PadLen + 2 ELSE Len(w)

RECURSIVE WordsLen(_)
WordsLen(ws) ==
    IF ws = <<>> THEN 0
    ELSE WordLen(Head(ws)) + (IF Tail(ws) = <<>> THEN 0 ELSE 1 + WordsLen(Tail(ws)))

\* command.encode('utf-8'): the words joined by single spaces
CmdLine(ws) == <<Run("cmd", WordsLen(ws), ws)>>

RECURSIVE StrLen(_)
StrLen(s) == IF s = <<>> THEN 0 ELSE Head(s).n + StrLen(Tail(s))

\* w[n:] for a word w longer than n
WordRest(w, n) == IF w = LongLS /\ n = PadLen THEN "LS" ELSE JUNK

\* the words of the first n bytes of the line made of the words ws, and of
\* the bytes after them (0 < n < length of the line), as split(' ') gives
\* them
RECURSIVE WordsTake(_, _)
WordsTake(ws, n) ==
    LET l == WordLen(Head(ws)) IN
    IF l > n THEN <<JUNK>>
    ELSE IF l = n THEN <<Head(ws)>>
    ELSE IF l + 1 = n THEN <<Head(ws), "">>
    ELSE <<Head(ws)>> \o WordsTake(Tail(ws), n - l - 1)

RECURSIVE WordsDrop(_, _)
WordsDrop(ws, n) ==
    LET l == WordLen(Head(ws)) IN
    IF l > n THEN <<WordRest(Head(ws), n)>> \o Tail(ws)
    ELSE IF l = n THEN <<"">> \o Tail(ws)
    ELSE IF l + 1 = n THEN Tail(ws)
    ELSE WordsDrop(Tail(ws), n - l - 1)

\* r[:n] and r[n:] for a run r longer than n
CutHead(r, n) ==
    CASE r.k = "txt" -> Run("txt", n, <<>>)
      [] r.k = "cmd" -> Run("cmd", n, WordsTake(r.w, n))
      [] OTHER -> Run("frag", n, <<>>)

CutTail(r, n) ==
    CASE r.k = "txt" -> Run("txt", r.n - n, <<>>)
      [] r.k = "cmd" -> Run("cmd", r.n - n, WordsDrop(r.w, n))
      [] OTHER -> Run("frag", r.n - n, <<>>)

\* s[:n]
RECURSIVE Take(_, _)
Take(s, n) ==
    IF s = <<>> \/ n = 0 THEN <<>>
    ELSE IF Head(s).n <= n THEN <<Head(s)>> \o Take(Tail(s), n - Head(s).n)
    ELSE <<CutHead(Head(s), n)>>

\* s[n:]
RECURSIVE Drop(_, _)
Drop(s, n) ==
    IF s = <<>> \/ n = 0 THEN s
    ELSE IF Head(s).n <= n THEN Drop(Tail(s), n - Head(s).n)
    ELSE <<CutTail(Head(s), n)>> \o Tail(s)

\* a + b, adjacent text merged
Cat(a, b) ==
    IF a = <<>> THEN b
    ELSE IF b = <<>> THEN a
    ELSE IF a[Len(a)].k = "txt" /\ b[1].k = "txt"
         THEN SubSeq(a, 1, Len(a) - 1) \o Txt(a[Len(a)].n + b[1].n) \o Tail(b)
         ELSE a \o b

\* What one recv(n) may return from a stream holding s (s non-empty): the
\* bytes of the first j sends still buffered, at most n of them.
RecvChoices(s, n) == { Take(StrTake, n) : StrTake \in { SubSeq(s, 1, j) : j \in 1..Len(s) } }

\* str.upper() on a header
Upper(w) ==
    CASE w = "get" -> "GET"
      [] w = "put" -> "PUT"
      [] w = "ls" -> "LS"
      [] OTHER -> w

\* bytes.decode('utf-8').split(' '): the words of what was received.  The
\* last word of one message and the first of the next are one word.
RunWords(r) == IF r.k = "cmd" THEN r.w ELSE <<JUNK>>

RECURSIVE Split(_)
Split(s) ==
    IF s = <<>> THEN <<"">>
    ELSE IF Tail(s) = <<>> THEN RunWords(Head(s))
    ELSE LET a == RunWords(Head(s))
             b == Split(Tail(s))
         IN  SubSeq(a, 1, Len(a) - 1) \o <<JUNK>> \o Tail(b)

\* ------------------------------------------------------------- filesystem
\* A filesystem: d says whether directory "d" exists under the working
\* directory; files maps a path to the content of the file there.
NoFile == <<Run("nofile", 0, <<>>)>>

FilePaths == {"f", "d/g", "x", "server", "client", JUNK}

\* entry names of the working directory, in the order listdir is taken to
\* return them
CwdNames == <<JUNK, "client", "d", "f", "server", "x">>

FileKey(p) == IF p \in FilePaths THEN p ELSE JUNK

\* os.path.dirname(abspath(p))
dirname(p) == IF p = "d/g" THEN "d" ELSE "."

\* os.path.exists(p)
exists(fs, p) ==
    CASE p = "." -> TRUE
      [] p = "d" -> fs.d
      [] p = "d/g" -> fs.d /\ fs.files[p] # NoFile
      [] OTHER -> fs.files[FileKey(p)] # NoFile

isdir(fs, p) == p = "." \/ (p = "d" /\ fs.d)

\* os.makedirs(dirs, True)
makedirs(fs, dirs) == IF dirs = "d" THEN [fs EXCEPT !.d = TRUE] ELSE fs

\* f.write(data) on a file just opened with 'w' / 'w+' (created or truncated)
WriteFile(fs, p, data) == [fs EXCEPT !.files[FileKey(p)] = data]

\* open(p, 'w'): creates the file, or truncates it
OpenTrunc(fs, p) == WriteFile(fs, p, <<>>)

FileData(fs, p) == fs.files[FileKey(p)]

\* f.read(4096) on a file just opened
ReadChunk(fs, p) == Take(FileData(fs, p), CHUNK)

\* os.listdir(curdir)
listdir(fs) == SelectSeq(CwdNames, LAMBDA nm : exists(fs, nm))

\* '\n'.join(ls_list), encoded
Listing(names) == IF names = <<>> THEN <<>> ELSE <<Run("ls", WordsLen(names), names)>>

EmptyFs == [d |-> FALSE, files |-> [p \in FilePaths |-> NoFile]]

RECURSIVE Norm(_)
Norm(s) == IF s = <<>> THEN <<>> ELSE Cat(<<Head(s)>>, Norm(Tail(s)))

\* ------------------------------------------------------------------ inputs
\* Contents of the file "f" a filesystem may start with.
ServerInitFs ==
    { [EmptyFs EXCEPT !.d = dd, !.files["f"] = ct] :
        dd \in BOOLEAN, ct \in {NoFile, <<>>, Txt(1), Txt(BigLen)} }

ClientInitFs ==
    { [EmptyFs EXCEPT !.files["f"] = ct] : ct \in {<<>>, Txt(1), NUL, Txt(BigLen)} }

\* Lines a user types at the client's prompt.
UserLines ==
    { <<"quit">>,
      <<"GET", "f", "d/g">>, <<"GET", "x", "d/g">>, <<"GET", "d", "f">>,
      <<"GET", LongLS, "server">>,
      <<"PUT", "f", "f">>, <<"PUT", "f", "d/g">>, <<"PUT", "x", "f">>,
      <<"ls", "server">>, <<"LS", "client">>,
      <<"GET", "f">>, <<"FOO">> }

\* Lines any other peer may send to the server.
RawLines ==
    { <<"GET">>, <<"GET", "f", "f", "f">>, <<"GET", "f", "f">>,
      <<"PUT", "f">>, <<"PUT", "f", "d/g", "x">>, <<"PUT", "f", "d/g">>,
      <<"LS">>, <<"LS", "server", "x">>, <<"LS", "server">>,
      <<"FOO", "f">> }

\* ------------------------------------------------------------------- state
VARIABLES
    clients,   \* server.py clients: the addresses registered
    lpc,       \* main(): "accept", "start", "lookup", "join", "crashed"
    laddr,     \* main(): address of the connection last accepted
    backlog,   \* connections established and not yet accepted
    spc,       \* handle_client per connection: where the thread is
    sargs,     \* handle_client: args of the command being handled
    sfs,       \* the server's filesystem
    sfs0,      \* the server's filesystem when the current command was received
    sres,      \* the reply the thread has sent to the current command
    c2s,       \* bytes sent by the peer and not yet received by the server
    s2c,       \* bytes sent by the server and not yet received by the peer
    cpc,       \* client per connection: where the process is
    chist,     \* lines the peer has issued on the connection
    cres,      \* how the client's last command ended
    cout,      \* what the client's last LS handed to pprint_dir
    cfs,       \* the client's filesystem
    cfs0       \* the client's filesystem when the current line was typed

lvars == <<clients, lpc, laddr, backlog>>
svars == <<spc, sargs, sfs, sfs0, sres>>
cvars == <<cpc, chist, cres, cout, cfs, cfs0>>
wire == <<c2s, s2c>>
vars == <<clients, lpc, laddr, backlog, spc, sargs, sfs, sfs0, sres, c2s, s2c,
          cpc, chist, cres, cout, cfs, cfs0>>

\* spc of a thread that ended on an exception no handler caught
Died == {"IndexError", "IsADirectoryError", "ConnectionError"}

\* lines issued so far on all connections
RECURSIVE Issued(_)
Issued(n) == IF n = 0 THEN 0 ELSE Len(chist[n]) + Issued(n - 1)

\* the peer's end of connection c is open
PeerOpen(c) == cpc[c] \in {"prompt", "hs_recv", "get_recv", "ls_recv", "raw"}

\* the server's end of connection c is open.  When main() dies the process
\* exits and every socket closes; the socket of a thread that died on an
\* exception is closed once main() rebinds `client` at the next accept.
ServerOpen(c) ==
    /\ lpc # "crashed"
    /\ spc[c] \notin {"deleting", "done"}
    /\ ~(spc[c] \in Died /\ laddr # c)

Init ==
    /\ clients = {}
    /\ lpc = "accept"
    /\ laddr = 0
    /\ backlog = <<>>
    /\ spc = [c \in Conns |-> "idle"]
    /\ sargs = [c \in Conns |-> <<>>]
    /\ sfs \in ServerInitFs
    /\ sfs0 = [c \in Conns |-> sfs]
    /\ sres = [c \in Conns |-> "none"]
    /\ c2s = [c \in Conns |-> <<>>]
    /\ s2c = [c \in Conns |-> <<>>]
    /\ cpc = [c \in Conns |-> "off"]
    /\ chist = [c \in Conns |-> <<>>]
    /\ cres = [c \in Conns |-> "none"]
    /\ cout = [c \in Conns |-> <<>>]
    /\ cfs = [c \in Conns |-> EmptyFs]
    /\ cfs0 = [c \in Conns |-> EmptyFs]

\* ---------------------------------------------------------------- listener
\* s.accept() returns the oldest pending connection; clients[address] = Thread(...)
Accept ==
    /\ lpc = "accept"
    /\ backlog # <<>>
    /\ laddr' = Head(backlog)
    /\ backlog' = Tail(backlog)
    /\ clients' = clients \cup {Head(backlog)}
    /\ lpc' = "start"
    /\ UNCHANGED <<svars, wire, cvars>>

\* clients[address].start()
StartThread ==
    /\ lpc = "start"
    /\ IF laddr \in clients
       THEN /\ spc' = [spc EXCEPT ![laddr] = "recv"]
            /\ lpc' = "lookup"
       ELSE /\ lpc' = "crashed"
            /\ UNCHANGED spc
    /\ UNCHANGED <<clients, laddr, backlog, sargs, sfs, sfs0, sres, wire, cvars>>

\* the lookup clients[address] of clients[address].join(): KeyError ends main()
JoinLookup ==
    /\ lpc = "lookup"
    /\ lpc' = IF laddr \in clients THEN "join" ELSE "crashed"
    /\ UNCHANGED <<clients, laddr, backlog, svars, wire, cvars>>

\* Thread.join() returns when the thread has ended
Join ==
    /\ lpc = "join"
    /\ spc[laddr] \in {"done"} \cup Died
    /\ lpc' = "accept"
    /\ UNCHANGED <<clients, laddr, backlog, svars, wire, cvars>>

\* ----------------------------------------------------------------- session
\* send(data) when it returns normally: what the stream to the other end
\* holds afterwards.  Zero bytes put nothing on the wire.  The first bytes
\* sent to an end that has closed go out and are answered by a reset;
\* later ones are discarded.
Sent(stream, data, open) == IF open \/ stream = <<>> THEN stream \o data ELSE stream

\* A reset is on its way to the server's end of connection c: the peer has
\* closed and bytes sent to it were left unread or arrived after the close.
\* From then on a send or a recv of the server may raise ConnectionError.
PeerReset(c) == ~PeerOpen(c) /\ s2c[c] # <<>>

\* Connection c was still waiting to be accepted when the server process
\* ended: closing the listening socket resets it.
Refused(c) == lpc = "crashed" /\ spc[c] = "idle"

\* A reset is on its way to the peer's end of connection c.
ServerReset(c) == ~ServerOpen(c) /\ (c2s[c] # <<>> \/ Refused(c))

\* The server's end of connection c was closed in order: the peer's recv
\* returns b'' once it has read what was sent.
ServerShut(c) == ~ServerOpen(c) /\ ~Refused(c)

\* get(), put(), ls() up to their vprint(True) or their exception, for the
\* command args on filesystem fs: pc "val" (about to send VALID), "inv"
\* (InvalidCommandException raised, about to send INVALID) or the name of
\* an exception no handler catches, and the filesystem left behind.
ServerGetCheck(args, fs) ==
    IF Len(args) # 3 THEN [pc |-> "inv", fs |-> fs]
    ELSE IF exists(fs, args[2]) THEN [pc |-> "val", fs |-> fs]
    ELSE [pc |-> "inv", fs |-> fs]

ServerPutCheck(args, fs) ==
    IF Len(args) # 3 THEN [pc |-> "inv", fs |-> fs]
    ELSE IF ~exists(fs, dirname(args[3]))
         THEN [pc |-> "val", fs |-> makedirs(fs, dirname(args[3]))]
         ELSE [pc |-> "val", fs |-> fs]

ServerLsCheck(args, fs) ==
    IF Len(args) < 2 THEN [pc |-> "IndexError", fs |-> fs]     \* target = args[1]
    ELSE IF args[2] = "server" /\ Len(args) = 2 THEN [pc |-> "val", fs |-> fs]
    ELSE [pc |-> "inv", fs |-> fs]

\* the dispatch of the main loop
ServerDispatch(args, fs) ==
    LET header == Upper(args[1]) IN
    CASE header = "GET" -> ServerGetCheck(args, fs)
      [] header = "PUT" -> ServerPutCheck(args, fs)
      [] header = "LS" -> ServerLsCheck(args, fs)
      [] OTHER -> [pc |-> "inv", fs |-> fs]

\* the thread has the bytes `data` from conn.recv(1024)
ServerCommand(c, data) ==
    LET args == Split(data)
        r == ServerDispatch(args, sfs)
    IN  /\ sargs' = [sargs EXCEPT ![c] = args]
        /\ sfs0' = [sfs0 EXCEPT ![c] = sfs]
        /\ sres' = [sres EXCEPT ![c] = "none"]
        /\ sfs' = r.fs
        /\ spc' = [spc EXCEPT ![c] = r.pc]
        /\ c2s' = [c2s EXCEPT ![c] = Drop(c2s[c], StrLen(data))]

\* command = conn.recv(1024).decode('utf-8') and the dispatch.  With the
\* peer gone recv returns b'' (end of stream) or, once a reset has been
\* provoked, raises ConnectionResetError.
SrvRecv(c) ==
    /\ spc[c] = "recv"
    /\ \/ /\ c2s[c] # <<>>
          /\ \E data \in RecvChoices(c2s[c], CMD_BUF) : ServerCommand(c, data)
       \/ /\ c2s[c] = <<>>
          /\ ~PeerOpen(c)
          /\ ServerCommand(c, <<>>)
       \/ /\ c2s[c] = <<>>
          /\ PeerReset(c)
          /\ spc' = [spc EXCEPT ![c] = "closing"]
          /\ UNCHANGED <<sargs, sfs, sfs0, sres, c2s>>
    /\ UNCHANGED <<lvars, s2c, cvars>>

\* where a command goes once its VALID is sent
AfterValid(args) ==
    CASE Upper(args[1]) = "GET" -> "get_xfer"
      [] Upper(args[1]) = "PUT" -> "put_open"
      [] OTHER -> "ls_xfer"

\* where a ConnectionError raised by vprint(True) goes: get() and put()
\* call it inside try/except OSError and raise InvalidCommandException,
\* ls() lets it reach the main loop's except ConnectionError
ValidSendFailed(args) == IF Upper(args[1]) = "LS" THEN "closing" ELSE "inv"

\* vprint(True)
SrvValid(c) ==
    /\ spc[c] = "val"
    /\ \/ /\ s2c' = [s2c EXCEPT ![c] = Sent(s2c[c], VALID, PeerOpen(c))]
          /\ sres' = [sres EXCEPT ![c] = "VALID"]
          /\ spc' = [spc EXCEPT ![c] = AfterValid(sargs[c])]
       \/ /\ PeerReset(c)
          /\ spc' = [spc EXCEPT ![c] = ValidSendFailed(sargs[c])]
          /\ UNCHANGED <<s2c, sres>>
    /\ UNCHANGED <<lvars, sargs, sfs, sfs0, c2s, cvars>>

\* except InvalidCommandException: vprint(False); continue.  A
\* ConnectionError raised by this send is raised inside the handler: no
\* except clause of the loop catches it and the thread ends there.
SrvInvalid(c) ==
    /\ spc[c] = "inv"
    /\ \/ /\ s2c' = [s2c EXCEPT ![c] = Sent(s2c[c], INVALID, PeerOpen(c))]
          /\ sres' = [sres EXCEPT ![c] = "INVALID"]
          /\ spc' = [spc EXCEPT ![c] = "recv"]
       \/ /\ PeerReset(c)
          /\ spc' = [spc EXCEPT ![c] = "ConnectionError"]
          /\ UNCHANGED <<s2c, sres>>
    /\ UNCHANGED <<lvars, sargs, sfs, sfs0, c2s, cvars>>

\* what get() sends for the file at path: its first 4096 characters, or
\* the NUL character when the read returns nothing
GetPayload(fs, path) == IF ReadChunk(fs, path) = <<>> THEN NUL ELSE ReadChunk(fs, path)

\* get() after vprint(True): open(path, 'r') raises IsADirectoryError on a
\* directory; a ConnectionError from esend reaches the main loop
SrvGetXfer(c) ==
    /\ spc[c] = "get_xfer"
    /\ IF isdir(sfs, sargs[c][2])
       THEN /\ spc' = [spc EXCEPT ![c] = "IsADirectoryError"]
            /\ UNCHANGED s2c
       ELSE \/ /\ s2c' = [s2c EXCEPT ![c] =
                              Sent(s2c[c], GetPayload(sfs, sargs[c][2]), PeerOpen(c))]
               /\ spc' = [spc EXCEPT ![c] = "recv"]
            \/ /\ PeerReset(c)
               /\ spc' = [spc EXCEPT ![c] = "closing"]
               /\ UNCHANGED s2c
    /\ UNCHANGED <<lvars, sargs, sfs, sfs0, sres, c2s, cvars>>

\* put() after vprint(True): open(path, 'w+')
SrvPutOpen(c) ==
    /\ spc[c] = "put_open"
    /\ IF isdir(sfs, sargs[c][3])
       THEN /\ spc' = [spc EXCEPT ![c] = "IsADirectoryError"]
            /\ UNCHANGED sfs
       ELSE /\ sfs' = OpenTrunc(sfs, sargs[c][3])
            /\ spc' = [spc EXCEPT ![c] = "put_recv"]
    /\ UNCHANGED <<lvars, sargs, sfs0, sres, wire, cvars>>

\* data = conn.recv(4096).decode('utf-8'); if data: f.write(data)
PutStore(fs, path, data) == IF data # <<>> THEN WriteFile(fs, path, Norm(data)) ELSE fs

SrvPutRecv(c) ==
    /\ spc[c] = "put_recv"
    /\ \/ /\ c2s[c] # <<>>
          /\ \E data \in RecvChoices(c2s[c], CHUNK) :
                /\ sfs' = PutStore(sfs, sargs[c][3], data)
                /\ c2s' = [c2s EXCEPT ![c] = Drop(c2s[c], StrLen(data))]
          /\ spc' = [spc EXCEPT ![c] = "recv"]
       \/ /\ c2s[c] = <<>>
          /\ ~PeerOpen(c)
          /\ spc' = [spc EXCEPT ![c] = "recv"]
          /\ UNCHANGED <<sfs, c2s>>
       \/ /\ c2s[c] = <<>>
          /\ PeerReset(c)
          /\ spc' = [spc EXCEPT ![c] = "closing"]
          /\ UNCHANGED <<sfs, c2s>>
    /\ UNCHANGED <<lvars, sargs, sfs0, sres, s2c, cvars>>

\* ls() after vprint(True): listdir, join, esend
SrvLsXfer(c) ==
    /\ spc[c] = "ls_xfer"
    /\ \/ /\ s2c' = [s2c EXCEPT ![c] = Sent(s2c[c], Listing(listdir(sfs)), PeerOpen(c))]
          /\ spc' = [spc EXCEPT ![c] = "recv"]
       \/ /\ PeerReset(c)
          /\ spc' = [spc EXCEPT ![c] = "closing"]
          /\ UNCHANGED s2c
    /\ UNCHANGED <<lvars, sargs, sfs, sfs0, sres, c2s, cvars>>

\* conn.close()
SrvClose(c) ==
    /\ spc[c] = "closing"
    /\ spc' = [spc EXCEPT ![c] = "deleting"]
    /\ UNCHANGED <<lvars, sargs, sfs, sfs0, sres, wire, cvars>>

\* del clients[address]; num_clients()
SrvDel(c) ==
    /\ spc[c] = "deleting"
    /\ c \in clients
    /\ clients' = clients \ {c}
    /\ spc' = [spc EXCEPT ![c] = "done"]
    /\ UNCHANGED <<lpc, laddr, backlog, sargs, sfs, sfs0, sres, wire, cvars>>

\* ------------------------------------------------------------------ client
\* s.connect((host, port)): the connection is established by the server's
\* listening socket and waits there for accept().  kind "prompt" is
\* client.py, kind "raw" any other program speaking to the port.
Connect(c, kind, fs) ==
    /\ cpc[c] = "off"
    /\ IF c = 1 THEN TRUE ELSE cpc[c - 1] # "off"
    /\ lpc # "crashed"
    /\ backlog' = Append(backlog, c)
    /\ cpc' = [cpc EXCEPT ![c] = kind]
    /\ cfs' = [cfs EXCEPT ![c] = fs]
    /\ cfs0' = [cfs0 EXCEPT ![c] = fs]
    /\ UNCHANGED <<clients, lpc, laddr, svars, wire, chist, cres, cout>>

CurLine(c) == chist[c][Len(chist[c])]

\* get(), put(), ls() of the client up to valid_command(command): "bad"
\* (InvalidCommandException before anything is sent), "local" (LS client),
\* "send" (valid_command is called), and the filesystem left behind.
ClientGetCheck(args, fs) ==
    IF Len(args) # 3 THEN [act |-> "bad", fs |-> fs]
    ELSE IF ~exists(fs, dirname(args[3]))
         THEN [act |-> "send", fs |-> makedirs(fs, dirname(args[3]))]
         ELSE [act |-> "send", fs |-> fs]

\* ClientPutCheck without the test of the source file
ClientPutCheckUnchecked(args, fs) ==
    IF Len(args) # 3 THEN [act |-> "bad", fs |-> fs]
    ELSE [act |-> "send", fs |-> fs]

ClientPutCheck(args, fs) ==
    IF Len(args) # 3 THEN [act |-> "bad", fs |-> fs]
    ELSE IF ~exists(fs, args[2]) THEN [act |-> "bad", fs |-> fs]
    ELSE [act |-> "send", fs |-> fs]

ClientLsCheck(args, fs) ==
    IF Len(args) # 2 THEN [act |-> "bad", fs |-> fs]
    ELSE IF args[2] = "client" THEN [act |-> "local", fs |-> fs]
    ELSE IF args[2] = "server" THEN [act |-> "send", fs |-> fs]
    ELSE [act |-> "bad", fs |-> fs]

\* the body of the client's while loop for one line of input
ClientDispatch(line, fs) ==
    LET header == Upper(line[1]) IN
    IF line = <<"quit">> THEN [act |-> "quit", fs |-> fs]
    ELSE CASE header = "GET" -> ClientGetCheck(line, fs)
           [] header = "PUT" -> ClientPutCheck(line, fs)
           [] header = "LS" -> ClientLsCheck(line, fs)
           [] OTHER -> [act |-> "bad", fs |-> fs]

\* command = input(...), the local checks, and s.send(command) of
\* valid_command
ClientInput(c, line) ==
    /\ cpc[c] = "prompt"
    /\ Issued(MaxConns) < MaxCmds
    /\ chist' = [chist EXCEPT ![c] = Append(@, line)]
    /\ cfs0' = [cfs0 EXCEPT ![c] = cfs[c]]
    /\ LET r == ClientDispatch(line, cfs[c]) IN
       /\ cfs' = [cfs EXCEPT ![c] = r.fs]
       /\ CASE r.act = "quit" ->
                 /\ cpc' = [cpc EXCEPT ![c] = "exited"]
                 /\ UNCHANGED <<cres, cout, c2s>>
            [] r.act = "bad" ->
                 /\ cres' = [cres EXCEPT ![c] = "usage"]
                 /\ UNCHANGED <<cpc, cout, c2s>>
            [] r.act = "local" ->
                 /\ cres' = [cres EXCEPT ![c] = "ok"]
                 /\ cout' = [cout EXCEPT ![c] = Listing(listdir(cfs[c]))]
                 /\ UNCHANGED <<cpc, c2s>>
            [] OTHER ->
                 \/ /\ c2s' = [c2s EXCEPT ![c] = Sent(c2s[c], CmdLine(line), ServerOpen(c))]
                    /\ cpc' = [cpc EXCEPT ![c] = "hs_recv"]
                    /\ cres' = [cres EXCEPT ![c] = "none"]
                    /\ UNCHANGED cout
                 \/ /\ ServerReset(c)
                    /\ cpc' = [cpc EXCEPT ![c] = "lost"]
                    /\ cres' = [cres EXCEPT ![c] = "connerr"]
                    /\ UNCHANGED <<cout, c2s>>
    /\ UNCHANGED <<lvars, svars, s2c>>

\* validator[received]: "VALID" -> True, "INVALID" -> False, anything else
\* (an empty read included) is a KeyError
Validator(received) ==
    IF received = VALID THEN "VALID"
    ELSE IF received = INVALID THEN "INVALID"
    ELSE "KeyError"

\* what put() sends after VALID: f.read(4096)
PutPayload(fs, path) == ReadChunk(fs, path)

\* the client has `received` from s.recv(1024) in valid_command; what
\* follows in get(), put() or ls() up to the next receive
ClientReply(c, received) ==
    LET line == CurLine(c)
        header == Upper(line[1])
        v == Validator(received)
    IN  /\ s2c' = [s2c EXCEPT ![c] = Drop(s2c[c], StrLen(received))]
        /\ CASE v = "KeyError" ->
                  /\ cpc' = [cpc EXCEPT ![c] = "crashed"]
                  /\ cres' = [cres EXCEPT ![c] = "KeyError"]
                  /\ UNCHANGED <<cfs, c2s>>
             [] v = "INVALID" ->
                  /\ cpc' = [cpc EXCEPT ![c] = "prompt"]
                  /\ cres' = [cres EXCEPT ![c] = "INVALID"]
                  /\ UNCHANGED <<cfs, c2s>>
             [] v = "VALID" /\ header = "GET" ->
                  /\ cfs' = [cfs EXCEPT ![c] = OpenTrunc(cfs[c], line[3])]
                  /\ cpc' = [cpc EXCEPT ![c] = "get_recv"]
                  /\ cres' = [cres EXCEPT ![c] = "VALID"]
                  /\ UNCHANGED c2s
             [] v = "VALID" /\ header = "PUT" ->
                  /\ UNCHANGED cfs
                  /\ \/ /\ c2s' = [c2s EXCEPT ![c] =
                                     Sent(c2s[c], PutPayload(cfs[c], line[2]), ServerOpen(c))]
                        /\ cpc' = [cpc EXCEPT ![c] = "prompt"]
                        /\ cres' = [cres EXCEPT ![c] = "ok"]
                     \/ /\ ServerReset(c)
                        /\ cpc' = [cpc EXCEPT ![c] = "lost"]
                        /\ cres' = [cres EXCEPT ![c] = "connerr"]
                        /\ UNCHANGED c2s
             [] OTHER ->
                  /\ cpc' = [cpc EXCEPT ![c] = "ls_recv"]
                  /\ cres' = [cres EXCEPT ![c] = "VALID"]
                  /\ UNCHANGED <<cfs, c2s>>

\* received = s.recv(1024).decode('utf-8') of valid_command.  With the
\* server's end closed recv returns b'' or, once a reset has been provoked,
\* raises ConnectionResetError.
ClientHsRecv(c) ==
    /\ cpc[c] = "hs_recv"
    /\ \/ /\ s2c[c] # <<>>
          /\ \E received \in RecvChoices(s2c[c], CMD_BUF) : ClientReply(c, received)
       \/ /\ s2c[c] = <<>>
          /\ ServerShut(c)
          /\ ClientReply(c, <<>>)
       \/ /\ s2c[c] = <<>>
          /\ ServerReset(c)
          /\ cpc' = [cpc EXCEPT ![c] = "lost"]
          /\ cres' = [cres EXCEPT ![c] = "connerr"]
          /\ UNCHANGED <<cfs, wire>>
    /\ UNCHANGED <<lvars, svars, chist, cout, cfs0>>

\* if data != '\00': f.write(data), on the file get() opened with 'w'
GetStore(fs, path, data) == IF data # NUL THEN WriteFile(fs, path, Norm(data)) ELSE fs

\* data = s.recv(4096).decode('utf-8') in get()
ClientGetRecv(c) ==
    /\ cpc[c] = "get_recv"
    /\ \/ /\ s2c[c] # <<>>
          /\ \E data \in RecvChoices(s2c[c], CHUNK) :
                /\ cfs' = [cfs EXCEPT ![c] = GetStore(cfs[c], CurLine(c)[3], data)]
                /\ s2c' = [s2c EXCEPT ![c] = Drop(s2c[c], StrLen(data))]
          /\ cpc' = [cpc EXCEPT ![c] = "prompt"]
          /\ cres' = [cres EXCEPT ![c] = "ok"]
       \/ /\ s2c[c] = <<>>
          /\ ServerShut(c)
          /\ cpc' = [cpc EXCEPT ![c] = "prompt"]
          /\ cres' = [cres EXCEPT ![c] = "ok"]
          /\ UNCHANGED <<cfs, s2c>>
       \/ /\ s2c[c] = <<>>
          /\ ServerReset(c)
          /\ cpc' = [cpc EXCEPT ![c] = "lost"]
          /\ cres' = [cres EXCEPT ![c] = "connerr"]
          /\ UNCHANGED <<cfs, s2c>>
    /\ UNCHANGED <<lvars, svars, c2s, chist, cout, cfs0>>

\* encoded = s.recv(4096); files = encoded.decode('utf-8'); pprint_dir
ClientLsRecv(c) ==
    /\ cpc[c] = "ls_recv"
    /\ \/ /\ s2c[c] # <<>>
          /\ \E data \in RecvChoices(s2c[c], CHUNK) :
                /\ cout' = [cout EXCEPT ![c] = data]
                /\ s2c' = [s2c EXCEPT ![c] = Drop(s2c[c], StrLen(data))]
          /\ cpc' = [cpc EXCEPT ![c] = "prompt"]
          /\ cres' = [cres EXCEPT ![c] = "ok"]
       \/ /\ s2c[c] = <<>>
          /\ ServerShut(c)
          /\ cout' = [cout EXCEPT ![c] = <<>>]
          /\ cpc' = [cpc EXCEPT ![c] = "prompt"]
          /\ cres' = [cres EXCEPT ![c] = "ok"]
          /\ UNCHANGED s2c
       \/ /\ s2c[c] = <<>>
          /\ ServerReset(c)
          /\ cpc' = [cpc EXCEPT ![c] = "lost"]
          /\ cres' = [cres EXCEPT ![c] = "connerr"]
          /\ UNCHANGED <<cout, s2c>>
    /\ UNCHANGED <<lvars, svars, c2s, chist, cfs, cfs0>>

\* ------------------------------------------------------------- other peers
\* a peer that is not client.py sends a line
RawSend(c, line) ==
    /\ cpc[c] = "raw"
    /\ Issued(MaxConns) < MaxCmds
    /\ chist' = [chist EXCEPT ![c] = Append(@, line)]
    /\ c2s' = [c2s EXCEPT ![c] = Sent(c2s[c], CmdLine(line), ServerOpen(c))]
    /\ UNCHANGED <<lvars, svars, s2c, cpc, cres, cout, cfs, cfs0>>

\* and closes its socket
RawClose(c) ==
    /\ cpc[c] = "raw"
    /\ cpc' = [cpc EXCEPT ![c] = "rawclosed"]
    /\ UNCHANGED <<lvars, svars, wire, chist, cres, cout, cfs, cfs0>>

\* ----------------------------------------------------------- specification
Session(c) ==
    \/ SrvRecv(c)
    \/ SrvValid(c)
    \/ SrvInvalid(c)
    \/ SrvGetXfer(c)
    \/ SrvPutOpen(c)
    \/ SrvPutRecv(c)
    \/ SrvLsXfer(c)
    \/ SrvClose(c)
    \/ SrvDel(c)

ClientProc(c, lines, fss) ==
    \/ \E fs \in fss : Connect(c, "prompt", fs)
    \/ \E line \in lines : ClientInput(c, line)
    \/ ClientHsRecv(c)
    \/ ClientGetRecv(c)
    \/ ClientLsRecv(c)

RawPeer(c, lines) ==
    \/ Connect(c, "raw", EmptyFs)
    \/ \E line \in lines : RawSend(c, line)
    \/ RawClose(c)

Listener ==
    \/ Accept
    \/ StartThread
    \/ JoinLookup
    \/ Join

\* One peer, every input: the protocol of one session.
Next ==
    \/ Listener
    \/ Session(1)
    \/ ClientProc(1, UserLines, ClientInitFs)
    \/ RawPeer(1, RawLines)

Spec == Init /\ [][Next]_vars

\* Several peers, fewer inputs each: the listener and the registry.
MultiUserLines ==
    { <<"quit">>, <<"GET", "f", "d/g">>, <<"GET", "d", "f">>, <<"ls", "server">> }

MultiRawLines == { <<"LS">>, <<"PUT", "f", "f">> }

MultiClientFs == { [EmptyFs EXCEPT !.files["f"] = Txt(1)] }

NextMulti ==
    \/ Listener
    \/ \E c \in Conns : Session(c)
    \/ \E c \in Conns : ClientProc(c, MultiUserLines, MultiClientFs)
    \/ \E c \in Conns : RawPeer(c, MultiRawLines)

SpecMulti == Init /\ [][NextMulti]_vars

\* ------------------------------------------------------------------ claims
\* the client on connection c has typed exactly these lines
Typed(c, lines) == cpc[c] \notin {"off", "raw", "rawclosed"} /\ chist[c] = lines

\* connection c is idle on both sides: the client waits for a handshake
\* reply, the session waits for a command, and nothing is in flight
BothWaiting(c) ==
    /\ cpc[c] = "hs_recv"
    /\ spc[c] = "recv"
    /\ c2s[c] = <<>>
    /\ s2c[c] = <<>>

\* the client has ended a PUT and the session still waits for its payload,
\* with nothing in flight
PutStalled(c) ==
    /\ cpc[c] = "prompt"
    /\ cres[c] = "ok"
    /\ spc[c] = "put_recv"
    /\ c2s[c] = <<>>

\* C1: round trip.  A client that PUTs its file f (content C) to server
\* path f and then GETs server path f into d/g ends the GET with d/g
\* holding exactly C: the PUT it has ended is stored by the server, the GET
\* is never left waiting for a reply that will not come, the client does
\* not fail, and once the GET has ended d/g equals f.
C1_RoundTrip ==
    \A c \in Conns :
        /\ Typed(c, << <<"PUT", "f", "f">> >>) => ~PutStalled(c)
        /\ Typed(c, << <<"PUT", "f", "f">>, <<"GET", "f", "d/g">> >>) =>
              /\ ~BothWaiting(c)
              /\ cpc[c] \notin {"crashed", "lost"}
              /\ cpc[c] = "prompt" => /\ cres[c] = "ok"
                                      /\ cfs[c].files["d/g"] = cfs[c].files["f"]

\* C2: no filesystem side effect before VALID.  While the client waits
\* for the reply to a command, and when the reply was INVALID, its
\* filesystem is as it was when the line was typed; while the session has
\* not yet sent the reply to a command its filesystem is as it was when
\* the command was received.
C2_NoEffectBeforeValid ==
    \A c \in Conns :
        /\ cpc[c] = "hs_recv" => cfs[c] = cfs0[c]
        /\ (cpc[c] = "prompt" /\ cres[c] = "INVALID") => cfs[c] = cfs0[c]
        /\ spc[c] \in {"val", "inv"} => sfs = sfs0[c]

\* the number of arguments each header requires
Arity(header) == IF header = "LS" THEN 1 ELSE 2

BadArity(args) ==
    /\ Upper(args[1]) \in valid_headers
    /\ Len(args) - 1 # Arity(Upper(args[1]))

\* the session is between receiving a command and returning to
\* Awaiting-Command (or ending on an exception raised by that command)
Handling(c) ==
    spc[c] \in {"val", "inv", "get_xfer", "put_open", "put_recv", "ls_xfer"} \cup Died

\* C3: arity validation.  A command with a valid header and the wrong
\* number of arguments is about to be answered INVALID, has changed
\* nothing in the server's filesystem, and has raised no exception that
\* leaves the handler.
C3_ArityInvalid ==
    \A c \in Conns :
        (Handling(c) /\ BadArity(sargs[c])) => (spc[c] = "inv" /\ sfs = sfs0[c])

\* the server has accepted the client's current command, a GET: it has
\* answered VALID to it
GetAccepted(c) ==
    /\ cpc[c] \notin {"off", "raw", "rawclosed"}
    /\ chist[c] # <<>>
    /\ Upper(CurLine(c)[1]) = "GET"
    /\ sargs[c] = CurLine(c)
    /\ sres[c] = "VALID"

\* the source of the client's current GET is a zero-length file on the server
EmptySource(c) == FileData(sfs, CurLine(c)[2]) = <<>>

\* C4: empty-file fidelity.  When an accepted GET of a zero-length server
\* file is over on both sides (the server has sent what get() sends, the
\* client is no longer receiving) the destination file exists on the
\* client and is zero-length (the NUL sentinel was not written into it),
\* and the session is back in Awaiting-Command.
C4_EmptyFile ==
    \A c \in Conns :
        (/\ GetAccepted(c)
         /\ EmptySource(c)
         /\ spc[c] # "get_xfer"
         /\ cpc[c] \notin {"hs_recv", "get_recv"}) =>
            /\ FileData(cfs[c], CurLine(c)[3]) = <<>>
            /\ spc[c] = "recv"

\* the thread of connection c is running
Running(c) == spc[c] \notin ({"idle", "done"} \cup Died)

\* C5: the accept loop does not wait for a session.  No connection waits
\* to be accepted while main() is blocked joining a thread that is still
\* running.
C5_AcceptNotBlocked ==
    ~(lpc = "join" /\ Running(laddr) /\ backlog # <<>>)

\* C6: cleanup on every connection cause.  A thread that has ended after
\* its peer disconnected or a send or receive raised a connection error
\* has closed its connection and removed its registry entry.
C6_CleanupOnStop ==
    \A c \in Conns :
        spc[c] \in {"done", "ConnectionError"} => (spc[c] = "done" /\ c \notin clients)

\* kinds of bytes that are payload: file content and listings
HasPayload(stream) == \E i \in 1..Len(stream) : stream[i].k \notin {"VALID", "INVALID", "cmd"}

\* C7: payload only after the command's own VALID.  A client that is
\* reading GET or LS payload is reading it for the command the server
\* has received last and answered VALID; PUT payload is on its way to the
\* server only while the server, having answered VALID, is in put(); the
\* server is about to send GET or LS payload only after sending VALID,
\* and payload is at the head of the client's receive buffer only when
\* the client has taken the VALID that preceded it.
C7_PayloadAfterValid ==
    \A c \in Conns :
        /\ cpc[c] \in {"get_recv", "ls_recv"} =>
              (sres[c] = "VALID" /\ sargs[c] = CurLine(c) /\ c2s[c] = <<>>)
        /\ HasPayload(c2s[c]) =>
              (sres[c] = "VALID" /\ spc[c] \in {"put_open", "put_recv"})
        /\ spc[c] \in {"get_xfer", "ls_xfer", "put_open", "put_recv"} => sres[c] = "VALID"
        /\ (PeerOpen(c) /\ cpc[c] # "raw" /\ s2c[c] # <<>> /\ HasPayload(<<Head(s2c[c])>>)) =>
              cpc[c] \in {"get_recv", "ls_recv"}

\* the client's current command is `LS server`
LsServer(c) ==
    /\ cpc[c] \in {"prompt", "hs_recv", "ls_recv"}
    /\ chist[c] # <<>>
    /\ Upper(CurLine(c)[1]) = "LS"
    /\ Len(CurLine(c)) = 2
    /\ CurLine(c)[2] = "server"

\* C8: listing correspondence.  An `LS server` the server accepted is not
\* left waiting for a listing that was never sent, and when it has ended
\* the client has exactly the newline-joined names of the entries of the
\* server's working directory.
C8_Listing ==
    \A c \in Conns :
        LsServer(c) =>
            /\ ~(cpc[c] = "ls_recv" /\ spc[c] = "recv" /\ s2c[c] = <<>> /\ ServerOpen(c))
            /\ (cpc[c] = "prompt" /\ cres[c] = "ok") => cout[c] = Listing(listdir(sfs))

\* the client's current command is a PUT that the client has ended and
\* the server has stored
PutStored(c) ==
    /\ cpc[c] = "prompt"
    /\ cres[c] = "ok"
    /\ chist[c] # <<>>
    /\ Upper(CurLine(c)[1]) = "PUT"
    /\ sargs[c] = CurLine(c)
    /\ spc[c] = "recv"
    /\ c2s[c] = <<>>

\* C9: large-file completeness.  A file longer than 4096 is transferred
\* whole: after a GET of it the destination equals the source, and after
\* a PUT of it the server's file equals the client's.
C9_LargeFile ==
    \A c \in Conns :
        /\ (GetAccepted(c) /\ cpc[c] = "prompt"
              /\ StrLen(FileData(sfs, CurLine(c)[2])) > CHUNK) =>
              FileData(cfs[c], CurLine(c)[3]) = FileData(sfs, CurLine(c)[2])
        /\ (PutStored(c) /\ StrLen(FileData(cfs[c], CurLine(c)[2])) > CHUNK) =>
              FileData(sfs, CurLine(c)[3]) = FileData(cfs[c], CurLine(c)[2])

\* C10: error isolation.  Whatever happens in a session's handler, main()
\* is not ended by it: the accept loop goes on.
C10_ListenerSurvives == lpc # "crashed"

\* the line passes the client's local checks for a command that goes to
\* the server, in the client's filesystem fs
PassesLocalChecks(line, fs) ==
    \/ Upper(line[1]) \in {"GET", "PUT"} /\ Len(line) = 3
          /\ (Upper(line[1]) = "PUT" => exists(fs, line[2]))
    \/ Upper(line[1]) = "LS" /\ Len(line) = 2 /\ line[2] = "server"

\* C11: only checked commands reach the wire.  A step of the client that
\* puts bytes on the connection is either the input of a line that is a
\* GET, PUT or `LS server` passing the local checks, the bytes being that
\* line, or the payload of such a PUT after its handshake; `quit`,
\* `LS client`, an unknown header, a wrong argument count and a PUT of a
\* missing file put nothing on it.
C11_OnlyCheckedCommandsSent ==
    [][\A c \in Conns :
          (cpc[c] \in {"prompt", "hs_recv", "get_recv", "ls_recv"} /\ c2s'[c] # c2s[c]
              /\ cvars' # cvars) =>
             LET line == chist'[c][Len(chist'[c])] IN
             /\ line # <<"quit">>
             /\ PassesLocalChecks(line, cfs[c])
             /\ \/ cpc[c] = "prompt" /\ c2s'[c] = c2s[c] \o CmdLine(line)
                \/ cpc[c] = "hs_recv" /\ Upper(line[1]) = "PUT"]_vars

C11_Witness ==
    \E c \in Conns :
        /\ cpc[c] = "prompt"
        /\ Len(chist[c]) = 2
        /\ chist[c][1] = <<"PUT", "x", "f">>
        /\ chist[c][2] \in {<<"FOO">>, <<"GET", "f">>, <<"LS", "client">>}
        /\ c2s[c] = <<>>
        /\ spc[c] = "recv"
        /\ sargs[c] = <<>>

\* C12: a lost connection is reported.  When a receive of the client
\* finds the server's end closed (nothing left to read), the client
\* reports the connectivity failure and leaves its loop: the receive is
\* not taken for a reply, for payload or for a completed transfer.
C12_LossReported ==
    [][\A c \in Conns :
          (cpc[c] \in {"hs_recv", "get_recv", "ls_recv"} /\ ~ServerOpen(c)
              /\ s2c[c] = <<>> /\ cpc'[c] # cpc[c]) =>
             (cpc'[c] = "lost" /\ cres'[c] = "connerr")]_vars

\* C13: no payload phase after INVALID.  A server that has answered
\* INVALID went back to Awaiting-Command (where a later receive may end
\* the session) and has opened no file, and a
\* client whose handshake receive finds the reply INVALID returns to its
\* prompt with that result, having opened no file and sent nothing.
C13_InvalidEndsCommand ==
    /\ [](\A c \in Conns :
             sres[c] = "INVALID" =>
                (/\ spc[c] \in {"recv", "closing", "deleting", "done"}
                 /\ sfs.files = sfs0[c].files))
    /\ [][\A c \in Conns :
             (cpc[c] = "hs_recv" /\ s2c[c] # <<>> /\ Head(s2c[c]).k = "INVALID"
                 /\ cpc'[c] # cpc[c]) =>
                (/\ cpc'[c] = "prompt"
                 /\ cres'[c] = "INVALID"
                 /\ cfs'[c] = cfs[c]
                 /\ c2s'[c] = c2s[c])]_vars

\* C14: a disconnect ends the session at once.  The empty read that
\* conn.recv returns at end of stream is never the command being handled:
\* no session is validating it or has answered it.
C14_DisconnectTerminates ==
    \A c \in Conns :
        sargs[c] = <<"">> => (spc[c] \in {"closing", "deleting", "done"} /\ sres[c] = "none")

\* C15: VALID to a GET only for a readable file.  A session that has
\* answered VALID to a GET has a source that is a file, not a directory,
\* and goes on to send the payload and return to Awaiting-Command: it has
\* not ended on an exception.
C15_ValidGetHasPayload ==
    \A c \in Conns :
        (sres[c] = "VALID" /\ Upper(sargs[c][1]) = "GET") =>
            /\ exists(sfs, sargs[c][2])
            /\ ~isdir(sfs, sargs[c][2])
            /\ spc[c] \notin Died

\* the command being handled is a line received whole whose header is
\* none of GET, PUT, LS
BadHeader(args) ==
    /\ args # <<>>
    /\ args[1] \notin {"", JUNK}
    /\ Upper(args[1]) \notin valid_headers

\* C16: an unknown header is answered INVALID and changes nothing.  While
\* and after a session handles a line with an unknown header the server's
\* filesystem is what it was, the session's registry entry is in place,
\* and the session is about to answer INVALID or has answered it and gone
\* back to Awaiting-Command: it has not ended on an exception.
C16_UnknownHeader ==
    \A c \in Conns :
        BadHeader(sargs[c]) =>
            /\ sfs = sfs0[c]
            /\ spc[c] \notin Died
            /\ spc[c] \in {"inv", "recv"} => c \in clients
            /\ spc[c] # "inv" => sres[c] = "INVALID"

\* both ends of connection c are open and blocked in a receive, with no
\* byte on its way in either direction
MutualWait(c) ==
    /\ cpc[c] \in {"hs_recv", "get_recv", "ls_recv"}
    /\ spc[c] \in {"recv", "put_recv"}
    /\ ServerOpen(c)
    /\ c2s[c] = <<>>
    /\ s2c[c] = <<>>

\* C17: commands complete.  With the connection up, the client and the
\* session are never both blocked waiting to receive from each other (a
\* command in that state can never complete).
C17_NoMutualWait == \A c \in Conns : ~MutualWait(c)

\* C18: registry safety.  Whenever main() is about to look up its
\* address in clients (to start or to join the thread) and whenever a
\* thread is about to delete its own address, the address is in clients.
C18_RegistrySafe ==
    /\ lpc \in {"start", "lookup"} => laddr \in clients
    /\ \A c \in Conns : spc[c] = "deleting" => c \in clients

\* some byte of the string s was sent as a command line
HasCommand(s) == \E i \in 1..Len(s) : s[i].k = "cmd"

\* C19: the two sides agree on the phase.  No file of the server holds
\* bytes that a peer sent as a command line; no payload is waiting to be
\* received as a command by a session in Awaiting-Command; a client at
\* its prompt has no reply or payload left unread in its socket, and
\* what a client's handshake receive returned was a reply token and
\* nothing else (the client has not failed on it while the server's end
\* was open).
C19_PhasesAgree ==
    \A c \in Conns :
        /\ \A p \in FilePaths : ~HasCommand(sfs.files[p])
        /\ spc[c] = "recv" => ~HasPayload(c2s[c])
        /\ cpc[c] = "prompt" => s2c[c] = <<>>
        /\ cres[c] = "KeyError" => ~ServerOpen(c)

====
